---- MODULE Spec2Model ----
(***************************************************************************)
(* Bitonic counting network and the shared counter built on it.            *)
(*                                                                         *)
(* Three constructions of the network live in the repository:              *)
(*   "arena" : Network::new(outputs)            src/networks/common.rs     *)
(*   "ptr"   : BitonicNetwork::new(outputs)     src/networks/bitonic.rs    *)
(*   "ptrw"  : BitonicNetwork::new(width, outs) src/bitonic_network.rs     *)
(* The counter facade (src/counters.rs) wraps a network whose outputs are  *)
(* CountingBuckets.  Indices are kept 0-based as in the source; a TLA+     *)
(* sequence s holding a Rust slice is read with At(s, i) == s[i + 1].      *)
(***************************************************************************)
EXTENDS Integers, Sequences, FiniteSets, TLC

(* ---------------------------- bounds ----------------------------------- *)
MaxWidth == 8
MaxConcWidth == 4
NumThreads == 2
MaxHash == 3
MaxOrderHash == 2
MaxPairWidth == 2
MaxPairCalls == 4
MaxWideHash == 8
MaxCalls == 3
MaxSerialCalls == 4
MaxSeqCalls == 10
MaxGenWidth == 16
MaxBinomial == 7
MaxCapacity == 4
MaxKey == 4
MaxValue == 2
MaxTableCalls == 3
MaxSharedCapacity == 2
MaxSharedKey == 3
MaxSharedValue == 2
MaxSharedCalls == 2

Threads == 1..NumThreads
Impls == {"arena", "ptr", "ptrw"}
NoWidth == 0 - 1
DANGLING == 0

(* ---------------------------- helpers ---------------------------------- *)
At(s, i) == s[i + 1]

Min(a, b) == IF a < b THEN a ELSE b

RECURSIVE is_power_of_two(_)
is_power_of_two(n) ==
    IF n <= 0 THEN FALSE
    ELSE IF n = 1 THEN TRUE
    ELSE IF n % 2 = 1 THEN FALSE
    ELSE is_power_of_two(n \div 2)

RECURSIVE log2_floor(_)
log2_floor(n) == IF n <= 1 THEN 0 ELSE 1 + log2_floor(n \div 2)

(* binomial_coefficient works on u64: n - k underflows when k > n.  With   *)
(* overflow checks (debug profile) the subtraction panics; without them it *)
(* wraps to a value far above k, so k is kept and the product loop runs.   *)
RECURSIVE binomial_loop(_, _, _, _)
binomial_loop(n, k, value, result) ==
    IF value > k THEN result
    ELSE binomial_loop(n, k, value + 1, (result * (n + 1 - value)) \div value)

binomial_coefficient(n, k, checks) ==
    IF k > n
    THEN IF checks THEN [panic |-> TRUE, value |-> 0]
         ELSE [panic |-> FALSE, value |-> binomial_loop(n, k, 1, 1)]
    ELSE [panic |-> FALSE,
          value |-> binomial_loop(n, IF k > n - k THEN n - k ELSE k, 1, 1)]

num_layers_by_profile(width, checks) ==
    binomial_coefficient(log2_floor(width) + 1, IF checks THEN 2 ELSE 1, checks)

num_layers(width, checks) ==
    binomial_coefficient(log2_floor(width) + 1, 2, checks)

get_layer_range_next(layer_idx, layer_width) ==
    [start |-> layer_width * (layer_idx + 1), end |-> layer_width * (layer_idx + 2)]

get_layer_range(layer_idx, layer_width) ==
    [start |-> layer_width * layer_idx, end |-> layer_width * (layer_idx + 1)]

(* ------------------- configuration generator (spec 4.2) ---------------- *)
(* Sorted insertion keeps wire lists in ascending wire order. *)
RECURSIVE Evens(_)
RECURSIVE Odds(_)
Evens(s) == IF s = <<>> THEN <<>> ELSE <<Head(s)>> \o Odds(Tail(s))
Odds(s) == IF s = <<>> THEN <<>> ELSE Evens(Tail(s))

RECURSIVE SortedMerge(_, _)
SortedMerge(a, b) ==
    IF a = <<>> THEN b
    ELSE IF b = <<>> THEN a
    ELSE IF Head(a) <= Head(b) THEN <<Head(a)>> \o SortedMerge(Tail(a), b)
    ELSE <<Head(b)>> \o SortedMerge(a, Tail(b))

FinalPairs_bottom_up(A, B) ==
    [k \in 1..Len(A) |->
        LET r == Len(A) + 1 - k
        IN IF A[r] < B[r] THEN <<A[r], B[r]>> ELSE <<B[r], A[r]>>]

FinalPairs(A, B) ==
    [k \in 1..Len(A) |-> IF A[k] < B[k] THEN <<A[k], B[k]>> ELSE <<B[k], A[k]>>]

RECURSIVE MergeConfig(_)
MergeConfig(ws) ==
    IF Len(ws) = 2 THEN << <<ws[1], ws[2]>> >>
    ELSE LET half == Len(ws) \div 2
             top == SubSeq(ws, 1, half)
             bot == SubSeq(ws, half + 1, Len(ws))
             A == SortedMerge(Evens(top), Odds(bot))
             B == SortedMerge(Odds(top), Evens(bot))
         IN MergeConfig(A) \o MergeConfig(B) \o FinalPairs(A, B)

RECURSIVE BitonicConfig(_)
BitonicConfig(ws) ==
    IF Len(ws) <= 1 THEN <<>>
    ELSE LET half == Len(ws) \div 2
         IN BitonicConfig(SubSeq(ws, 1, half))
            \o BitonicConfig(SubSeq(ws, half + 1, Len(ws)))
            \o MergeConfig(ws)

(* The generator is defined for powers of two and refuses any other       *)
(* positive width; zero wires leave it nothing to emit (the zero check is  *)
(* made by Network::new before the generator is asked).                    *)
from_width(width) ==
    IF width = 0 \/ is_power_of_two(width)
    THEN [panic |-> FALSE, pairs |-> BitonicConfig([k \in 1..width |-> k - 1])]
    ELSE [panic |-> TRUE, pairs |-> <<>>]

(* --------------------- arena construction (common.rs) ------------------ *)
EndSegment_zero(k) ==
    [tag |-> "End", output |-> 0, value |-> FALSE, next_segments |-> <<0, 0>>]

EndSegment(k) ==
    [tag |-> "End", output |-> k, value |-> FALSE, next_segments |-> <<0, 0>>]

BalancerSegment_top_twice(top, bottom) ==
    [tag |-> "Balancer", output |-> -1, value |-> TRUE,
     next_segments |-> <<top, top>>]

BalancerSegment_bottom_twice(top, bottom) ==
    [tag |-> "Balancer", output |-> -1, value |-> TRUE,
     next_segments |-> <<bottom, bottom>>]

BalancerSegment_swapped(top, bottom) ==
    [tag |-> "Balancer", output |-> -1, value |-> TRUE,
     next_segments |-> <<bottom, top>>]

BalancerSegment(top, bottom) ==
    [tag |-> "Balancer", output |-> -1, value |-> TRUE,
     next_segments |-> <<top, bottom>>]

(* the loop over the configuration: one index pair per emitted balancer *)
RECURSIVE link_balancers(_, _, _, _)
link_balancers(config, latest_segments, balancers, next_segment_idx) ==
    IF config = <<>>
    THEN [latest_segments |-> latest_segments, balancers |-> balancers,
          next_segment_idx |-> next_segment_idx]
    ELSE LET top_wire == Head(config)[1]
             bottom_wire == Head(config)[2]
             balancer_ptrs == <<At(latest_segments, top_wire),
                                At(latest_segments, bottom_wire)>>
         IN link_balancers(Tail(config),
                [latest_segments EXCEPT ![top_wire + 1] = next_segment_idx,
                                        ![bottom_wire + 1] = next_segment_idx],
                Append(balancers, balancer_ptrs),
                next_segment_idx + 1)

end_segments_short(width) == [p \in 1..(width - 1) |-> EndSegment(width - p)]

end_segments_unreversed(width) == [p \in 1..width |-> EndSegment(p - 1)]

(* outputs.iter().map(End).rev(): position p holds the End of output w-1-p *)
end_segments(width) == [p \in 1..width |-> EndSegment(width - p)]

(* pushing the balancers; &segments[idx] panics when idx is out of bounds *)
RECURSIVE push_balancers(_, _)
push_balancers(balancers, segments) ==
    IF balancers = <<>> THEN [panic |-> FALSE, segments |-> segments]
    ELSE LET top_segment_idx == Head(balancers)[1]
             bottom_balancer_idx == Head(balancers)[2]
         IN IF top_segment_idx >= Len(segments) \/ bottom_balancer_idx >= Len(segments)
            THEN [panic |-> TRUE, segments |-> segments]
            ELSE push_balancers(Tail(balancers),
                     Append(segments,
                            BalancerSegment(top_segment_idx, bottom_balancer_idx)))

check_segment_ptrs_in_bounds(segments, width) ==
    \A p \in 1..Len(segments) :
        IF segments[p].tag = "Balancer"
        THEN /\ segments[p].next_segments[1] \in 0..(Len(segments) - 1)
             /\ segments[p].next_segments[2] \in 0..(Len(segments) - 1)
        ELSE segments[p].output \in 0..(width - 1)

NoNetwork ==
    [panic |-> TRUE, width |-> 0, segments |-> <<>>, last_segments |-> <<>>,
     heap |-> <<>>, balancers |-> <<>>]

nonempty_gate_any(n) == n >= 0

(* assert!(outputs.len() > 0) *)
nonempty_gate(n) == n > 0

Network_new(n, checks) ==
    IF ~nonempty_gate(n) THEN NoNetwork
    ELSE LET config == from_width(n)
         IN IF config.panic THEN NoNetwork
            ELSE LET linked == link_balancers(config.pairs,
                                   [k \in 1..n |-> k - 1], <<>>, n)
                     pushed == push_balancers(linked.balancers, end_segments(n))
                 IN IF pushed.panic THEN NoNetwork
                    ELSE IF checks /\ ~check_segment_ptrs_in_bounds(pushed.segments, n)
                    THEN NoNetwork
                    ELSE IF checks /\ Len(pushed.segments) # linked.next_segment_idx
                    THEN NoNetwork
                    ELSE [panic |-> FALSE, width |-> n,
                          segments |-> pushed.segments,
                          last_segments |-> linked.latest_segments,
                          heap |-> <<>>, balancers |-> <<>>]

(* ------------- pointer construction (bitonic.rs, bitonic_network.rs) --- *)
usize(up) == IF up THEN 1 ELSE 0

Internal(ptr) == [tag |-> "Internal", ptr |-> ptr]
Leaf(ptr) == [tag |-> "Leaf", ptr |-> ptr]

InternalBalancer_new_odd ==
    [value |-> 1, outputs |-> <<Internal(DANGLING), Internal(DANGLING)>>]

InternalBalancer_new ==
    [value |-> 0, outputs |-> <<Internal(DANGLING), Internal(DANGLING)>>]

Wire_new(wire_index) == [balancer_history |-> <<>>, value |-> wire_index]
Wire_num_balancers(wire) == Len(wire.balancer_history)
Wire_first(wire) == wire.balancer_history[1]

Wire_last(wire) == wire.balancer_history[Len(wire.balancer_history)]
Wire_add_keep_last(wire, balancer, up) ==
    [wire EXCEPT !.balancer_history = <<[balancer |-> balancer, up |-> up]>>]

Wire_add(wire, balancer, up) ==
    [wire EXCEPT !.balancer_history =
        Append(@, [balancer |-> balancer, up |-> up])]
Wire_pop_front_keep(wire) == wire

Wire_pop_front(wire) == [wire EXCEPT !.balancer_history = Tail(@)]

split_even_odd(wires) == [even |-> Evens(wires), odd |-> Odds(wires)]

(* last.outputs[up] = Internal(new) on the wire's most recent balancer *)
attach_nothing(heap, wire, target) == heap

attach(heap, wire, target) ==
    IF Wire_num_balancers(wire) > 0
    THEN LET last == Wire_last(wire)
         IN [heap EXCEPT ![last.balancer].outputs[usize(last.up) + 1] = target]
    ELSE heap

RECURSIVE merge_wires_loop(_, _, _, _, _, _)
merge_wires_loop(upper, lower, i, wires, heap, checks) ==
    IF i > Min(Len(upper), Len(lower))
    THEN [panic |-> FALSE, wires |-> wires, heap |-> heap]
    ELSE LET upper_wire == upper[i]
             lower_wire == lower[i]
             new_balancer_alloc == Len(heap) + 1
             h0 == Append(heap, InternalBalancer_new)
             h1 == attach(h0, upper_wire, Internal(new_balancer_alloc))
             h2 == attach(h1, lower_wire, Internal(new_balancer_alloc))
         IN IF checks /\ Wire_num_balancers(upper_wire)
                           # Wire_num_balancers(lower_wire)
            THEN [panic |-> TRUE, wires |-> wires, heap |-> heap]
            ELSE merge_wires_loop(upper, lower, i + 1,
                     wires \o <<Wire_add(upper_wire, new_balancer_alloc, FALSE),
                                Wire_add(lower_wire, new_balancer_alloc, TRUE)>>,
                     h2, checks)

merge_wires(upper, lower, heap, checks) ==
    merge_wires_loop(upper, lower, 1, <<>>, heap, checks)

RECURSIVE merge_networks(_, _, _, _)
merge_networks(upper, lower, heap, checks) ==
    IF Len(upper) + Len(lower) = 2
    THEN merge_wires(upper, lower, heap, checks)
    ELSE LET u == split_even_odd(upper)
             l == split_even_odd(lower)
             upper_result == merge_networks(u.even, l.odd, heap, checks)
         IN IF upper_result.panic THEN upper_result
            ELSE LET lower_result ==
                         merge_networks(u.odd, l.even, upper_result.heap, checks)
                 IN IF lower_result.panic THEN lower_result
                    ELSE merge_wires(upper_result.wires, lower_result.wires,
                                     lower_result.heap, checks)

RECURSIVE construct_bitonic(_, _, _, _)
construct_bitonic(width, wire_index, heap, checks) ==
    IF width = 1
    THEN [panic |-> FALSE, wires |-> <<Wire_new(wire_index)>>, heap |-> heap]
    ELSE LET upper_result ==
                 construct_bitonic(width \div 2, wire_index, heap, checks)
         IN IF upper_result.panic THEN upper_result
            ELSE LET lower_result ==
                         construct_bitonic(width \div 2,
                             wire_index + width \div 2, upper_result.heap, checks)
                 IN IF lower_result.panic THEN lower_result
                    ELSE merge_networks(upper_result.wires, lower_result.wires,
                                        lower_result.heap, checks)

(* for (wire, output) in wires.zip(outputs): wire.last() indexes            *)
(* balancer_history[len - 1], which panics on an empty history             *)
RECURSIVE attach_outputs(_, _, _, _)
attach_outputs(wires, n, k, heap) ==
    IF k >= Min(Len(wires), n) THEN [panic |-> FALSE, heap |-> heap]
    ELSE IF Wire_num_balancers(At(wires, k)) = 0
    THEN [panic |-> TRUE, heap |-> heap]
    ELSE attach_outputs(wires, n, k + 1, attach(heap, At(wires, k), Leaf(k)))

(* one layer: first balancer of every wire, each balancer once, keyed by   *)
(* the value of the wire that contributed it                               *)
RECURSIVE collect_layer(_, _, _, _)
collect_layer(wires, i, unique_balancers, layer) ==
    IF i > Len(wires) THEN layer
    ELSE IF Wire_num_balancers(wires[i]) = 0
    THEN collect_layer(wires, i + 1, unique_balancers, layer)
    ELSE LET balancer == Head(wires[i].balancer_history).balancer
         IN IF balancer \in unique_balancers
            THEN collect_layer(wires, i + 1, unique_balancers, layer)
            ELSE collect_layer(wires, i + 1, unique_balancers \cup {balancer},
                     Append(layer, [idx |-> wires[i].value, ptr |-> balancer]))

RECURSIVE insert_by_key(_, _)
insert_by_key(sorted, e) ==
    IF sorted = <<>> THEN <<e>>
    ELSE IF e.idx < Head(sorted).idx THEN <<e>> \o sorted
    ELSE <<Head(sorted)>> \o insert_by_key(Tail(sorted), e)

RECURSIVE sort_by_key(_)
sort_by_key(layer) ==
    IF layer = <<>> THEN <<>>
    ELSE insert_by_key(sort_by_key(SubSeq(layer, 1, Len(layer) - 1)),
                       layer[Len(layer)])

RECURSIVE fill_layers(_, _, _)
fill_layers(remaining, wires, balancers) ==
    IF remaining = 0 THEN balancers
    ELSE LET layer == sort_by_key(collect_layer(wires, 1, {}, <<>>))
         IN fill_layers(remaining - 1,
                [i \in 1..Len(wires) |->
                    IF Wire_num_balancers(wires[i]) = 0 THEN wires[i]
                    ELSE Wire_pop_front(wires[i])],
                balancers \o [j \in 1..Len(layer) |-> layer[j].ptr])

RECURSIVE sum_num_balancers(_)
sum_num_balancers(wires) ==
    IF wires = <<>> THEN 0
    ELSE Wire_num_balancers(Head(wires)) + sum_num_balancers(Tail(wires))

(* the body shared by both pointer constructors, after their width gates *)
ptr_build(width, n, checks) ==
    LET layers == num_layers(width, checks)
        layer_width == width \div 2
        built == construct_bitonic(width, 0, <<>>, checks)
    IN IF layers.panic \/ built.panic THEN NoNetwork
       ELSE IF checks /\ Len(built.wires) # n THEN NoNetwork
       ELSE IF checks /\ layers.value * layer_width * 2
                           # sum_num_balancers(built.wires)
       THEN NoNetwork
       ELSE LET attached == attach_outputs(built.wires, n, 0, built.heap)
            IN IF attached.panic THEN NoNetwork
               ELSE [panic |-> FALSE, width |-> width,
                     segments |-> <<>>, last_segments |-> <<>>,
                     heap |-> attached.heap,
                     balancers |-> fill_layers(layers.value, built.wires, <<>>)]

outputs_gate_nonempty(n) == n > 0

(* assert!(outputs.len().is_power_of_two()) *)
outputs_gate(n) == is_power_of_two(n)

BitonicNetwork_new(n, checks) ==
    IF ~outputs_gate(n) THEN NoNetwork ELSE ptr_build(n, n, checks)

width_gate_pow2_only(width, n) == is_power_of_two(width)

(* assert!(width.is_power_of_two()); assert_eq!(width, outputs.len()) *)
width_gate(width, n) == is_power_of_two(width) /\ width = n

BitonicNetwork_new_width(width, n, checks) ==
    IF ~width_gate(width, n) THEN NoNetwork ELSE ptr_build(width, n, checks)

(* ------------------------------- state --------------------------------- *)
VARIABLES
    impl,           \* which construction is used
    nOutputs,       \* length of the output sequence handed to new
    reqWidth,       \* width argument of new(width, outputs); NoWidth otherwise
    hash,           \* hash_single(thread id) of every thread
    status,         \* "unbuilt", "built", "panicked", "dropped" or "double_free"
    width,          \* Network.width
    segments,       \* arena: Box<[WireSegment]>
    last_segments,  \* arena: entry segment index per wire
    heap,           \* pointer version: the allocated InternalBalancers
    balancers,      \* pointer version: BitonicNetwork.balancers (by layer)
    outputs,        \* the output cells: CountingBucket values
    pc,             \* per thread: "idle", "walk", "get", "inc", "panicked"
    cur,            \* per thread: segment the traversal stands on
    reached,        \* per thread: output position traverse() returned
    val,            \* per thread: value read by bucket.get()
    results,        \* per thread: values returned by its next() calls
    trace,          \* output positions returned by traverse(), in order
    toggles,        \* per thread: balancers toggled by its current traverse()
    invoked,        \* per thread: what had returned when its call was invoked
    choices,        \* per balancer: successor indices handed out, in order
    capacity,       \* IntegerHashTable.capacity (0: no table in this run)
    array,          \* IntegerHashTable.array: 2 * capacity u32 cells
    size,           \* IntegerHashTable.size
    call,           \* per thread: locals of its set() or get() in progress
    history         \* per thread: its completed set() and get() calls

vars == <<impl, nOutputs, reqWidth, hash, status, width, segments,
          last_segments, heap, balancers, outputs, pc, cur, reached, val,
          results, trace, toggles, invoked, choices, capacity, array, size,
          call, history>>

netVars == <<width, segments, last_segments, heap, balancers>>
paramVars == <<impl, nOutputs, reqWidth, hash>>
tableVars == <<capacity, array, size, call, history>>
counterVars == <<status, netVars, outputs, pc, cur, reached, val, results,
                 trace, toggles, invoked, choices>>

NoSegment == [tag |-> "None", ptr |-> 0]

(* Network::width() and Network::outputs(): read-only accessors *)
Network_width_plus == width + 1

Network_width == width
Network_outputs == outputs

(* Threads differ only in the hash of their id, and every action treats    *)
(* them alike; hash assignments are taken up to renaming of the threads    *)
(* (ascending in the thread index).                                        *)
Unbuilt ==
    /\ status = "unbuilt"
    /\ width = 0
    /\ segments = <<>>
    /\ last_segments = <<>>
    /\ heap = <<>>
    /\ balancers = <<>>
    /\ outputs = <<>>
    /\ pc = [t \in Threads |-> "idle"]
    /\ cur = [t \in Threads |-> NoSegment]
    /\ reached = [t \in Threads |-> -1]
    /\ val = [t \in Threads |-> 0]
    /\ results = [t \in Threads |-> <<>>]
    /\ trace = <<>>
    /\ toggles = [t \in Threads |-> 0]
    /\ invoked = [t \in Threads |-> [seen |-> -1, alone |-> TRUE]]
    /\ choices = <<>>

(* no call of a thread on the hash table is in progress *)
NoCall == [pc |-> "idle", key |-> 0, value |-> 0, idx |-> [hi |-> 0, lo |-> 0]]

(* runs of the counters hold no IntegerHashTable *)
NoTable ==
    /\ capacity = 0
    /\ array = <<>>
    /\ size = 0
    /\ call = [t \in Threads |-> NoCall]
    /\ history = [t \in Threads |-> <<>>]

InitUpTo(maxw, maxh) ==
    /\ impl \in Impls
    /\ nOutputs \in 0..maxw
    /\ reqWidth \in (IF impl = "ptrw" THEN 0..maxw ELSE {NoWidth})
    /\ hash \in {h \in [Threads -> 0..(maxh - 1)] :
                    \A t \in Threads : \A u \in Threads :
                        t < u => h[t] <= h[u]}
    /\ Unbuilt
    /\ NoTable

Init == InitUpTo(MaxConcWidth, MaxHash)
InitWide == InitUpTo(MaxWidth, MaxWideHash)

(* ----------------------------- construction ---------------------------- *)
Construct(checks) ==
    IF impl = "arena" THEN Network_new(nOutputs, checks)
    ELSE IF impl = "ptr" THEN BitonicNetwork_new(nOutputs, checks)
    ELSE BitonicNetwork_new_width(reqWidth, nOutputs, checks)

(* BitonicCountingNetwork::new: (0..width).map(CountingBucket::new) *)
CountingBucket_new_shifted(starting_value) == starting_value + 1

CountingBucket_new_zero(starting_value) == 0

CountingBucket_new(starting_value) == starting_value

New ==
    /\ status = "unbuilt"
    /\ \E checks \in BOOLEAN :
          LET net == Construct(checks)
          IN IF net.panic
             THEN /\ status' = "panicked"
                  /\ UNCHANGED <<netVars, outputs, choices>>
             ELSE /\ status' = "built"
                  /\ width' = net.width
                  /\ segments' = net.segments
                  /\ last_segments' = net.last_segments
                  /\ heap' = net.heap
                  /\ balancers' = net.balancers
                  /\ outputs' = [k \in 1..nOutputs |->
                                     CountingBucket_new(k - 1)]
                  /\ choices' = [b \in 1..(Len(net.segments) + Len(net.heap))
                                     |-> <<>>]
    /\ UNCHANGED tableVars
    /\ UNCHANGED <<paramVars, pc, cur, reached, val, results, trace, toggles,
                   invoked>>

(* ------------------------------ traversal ------------------------------ *)
RECURSIVE SumLen(_, _)
SumLen(f, S) ==
    IF S = {} THEN 0
    ELSE LET t == CHOOSE x \in S : TRUE IN Len(f[t]) + SumLen(f, S \ {t})

InFlight == {t \in Threads : pc[t] \in {"walk", "get", "inc"}}
CallsStarted == SumLen(results, Threads) + Cardinality(InFlight)
Quiescent == InFlight = {}

(* largest value a completed next() has returned so far (-1: none yet) *)
ReturnedSoFar ==
    UNION {{results[t][i] : i \in 1..Len(results[t])} : t \in Threads}

MaxReturned ==
    IF ReturnedSoFar = {} THEN 0 - 1
    ELSE CHOOSE m \in ReturnedSoFar : \A v \in ReturnedSoFar : v <= m

SegmentRef(idx) == [tag |-> At(segments, idx).tag, ptr |-> idx]

IsOutput_leaf_only(seg) == seg.tag = "Leaf"

IsOutput(seg) == seg.tag \in {"End", "Leaf"}

OutputOf(seg) == IF seg.tag = "End" THEN At(segments, seg.ptr).output ELSE seg.ptr

(* where the traversal goes next: it either stands on an output cell, *)
(* on a balancer, or has left the allocated graph                      *)
Arrive(t, seg) ==
    IF IsOutput(seg)
    THEN /\ pc' = [pc EXCEPT ![t] = "get"]
         /\ cur' = [cur EXCEPT ![t] = seg]
         /\ reached' = [reached EXCEPT ![t] = OutputOf(seg)]
         /\ trace' = Append(trace, OutputOf(seg))
    ELSE /\ pc' = [pc EXCEPT ![t] =
                     IF seg.tag = "Internal" /\ seg.ptr = DANGLING
                     THEN "panicked" ELSE "walk"]
         /\ cur' = [cur EXCEPT ![t] = seg]
         /\ UNCHANGED <<reached, trace>>

input_slot(t) == hash[t] % width

(* first segment of traverse(): last_segments[input_slot] in the arena,    *)
(* balancers[layer 0][input_slot / 2] in the pointer versions; slicing or  *)
(* indexing past the end of balancers panics                               *)
start_segment(slot) ==
    IF impl = "arena"
    THEN [panic |-> FALSE, seg |-> SegmentRef(At(last_segments, slot))]
    ELSE LET range == get_layer_range(0, width \div 2)
             idx == range.start + slot \div 2
         IN IF range.end > Len(balancers) \/ idx >= range.end
            THEN [panic |-> TRUE, seg |-> NoSegment]
            ELSE [panic |-> FALSE, seg |-> Internal(At(balancers, idx))]

BeginCall(t, cap) ==
    /\ status = "built"
    /\ pc[t] = "idle"
    /\ CallsStarted < cap
    /\ toggles' = [toggles EXCEPT ![t] = 0]
    /\ IF width = 0
       THEN /\ pc' = [pc EXCEPT ![t] = "panicked"]
            /\ UNCHANGED <<cur, reached, trace>>
       ELSE LET start == start_segment(input_slot(t))
            IN IF start.panic
               THEN /\ pc' = [pc EXCEPT ![t] = "panicked"]
                    /\ UNCHANGED <<cur, reached, trace>>
               ELSE Arrive(t, start.seg)
    /\ UNCHANGED tableVars
    /\ UNCHANGED <<paramVars, status, netVars, outputs, val, results, choices>>

Begin(t, cap) == BeginCall(t, cap) /\ UNCHANGED invoked

(* the same step, recording in the history variable invoked what had       *)
(* returned, and whether any call was in flight, when the call was made    *)
Invoke(t, cap) ==
    /\ BeginCall(t, cap)
    /\ invoked' = [invoked EXCEPT ![t] =
                      [seen |-> MaxReturned, alone |-> InFlight = {}]]

(* Balancer::toggle_up: fetch_xor(true) returns the old bit (arena);       *)
(* fetch_add(1) returns the old count, taken modulo 2 (pointer versions)   *)
toggle_up_arena_inverted(balancer) == 1 - usize(balancer.value)

toggle_up_arena(balancer) == usize(balancer.value)
toggle_up_ptr_pairs(balancer) == (balancer.value \div 2) % 2

toggle_up_ptr(balancer) == balancer.value % 2

(* what the read-modify-write leaves in the balancer *)
fetch_xor_false(value) == value

fetch_xor_true(value) == ~value
fetch_add_one(value) == value + 1

Step(t) ==
    /\ pc[t] = "walk"
    /\ toggles' = [toggles EXCEPT ![t] = @ + 1]
    /\ IF impl = "arena"
       THEN LET balancer == At(segments, cur[t].ptr)
                next_index == toggle_up_arena(balancer)
            IN /\ segments' = [segments EXCEPT ![cur[t].ptr + 1].value =
                                            fetch_xor_true(@)]
               /\ choices' = [choices EXCEPT ![cur[t].ptr + 1] =
                                                Append(@, next_index)]
               /\ Arrive(t, SegmentRef(At(balancer.next_segments, next_index)))
               /\ UNCHANGED heap
       ELSE LET balancer == heap[cur[t].ptr]
                next_index == toggle_up_ptr(balancer)
            IN /\ heap' = [heap EXCEPT ![cur[t].ptr].value = fetch_add_one(@)]
               /\ choices' = [choices EXCEPT ![cur[t].ptr] =
                                                Append(@, next_index)]
               /\ Arrive(t, At(balancer.outputs, next_index))
               /\ UNCHANGED segments
    /\ UNCHANGED tableVars
    /\ UNCHANGED <<paramVars, status, width, last_segments, balancers,
                   outputs, val, results, invoked>>

(* ------------------- Drop for BitonicNetwork (pointer) ----------------- *)
(* a deallocated InternalBalancer *)
Freed == [value |-> 0 - 1, outputs |-> <<>>]

(* for balancer_ptr in self.balancers: drop_in_place, then Heap.dealloc;   *)
(* deallocating an address a second time is undefined behaviour            *)
RECURSIVE dealloc_balancers(_, _)
dealloc_balancers(ptrs, hp) ==
    IF ptrs = <<>> THEN [double_free |-> FALSE, heap |-> hp]
    ELSE IF hp[Head(ptrs)] = Freed THEN [double_free |-> TRUE, heap |-> hp]
    ELSE dealloc_balancers(Tail(ptrs), [hp EXCEPT ![Head(ptrs)] = Freed])

(* drop(&mut self): no call is in flight; the balancers listed in          *)
(* self.balancers are released, then every output cell of self.outputs     *)
Drop ==
    /\ status = "built"
    /\ impl # "arena"
    /\ \A t \in Threads : pc[t] \in {"idle", "panicked"}
    /\ LET released == dealloc_balancers(balancers, heap)
       IN /\ heap' = released.heap
          /\ status' = IF released.double_free THEN "double_free"
                       ELSE "dropped"
    /\ outputs' = <<>>
    /\ UNCHANGED tableVars
    /\ UNCHANGED <<paramVars, width, segments, last_segments, balancers, pc,
                   cur, reached, val, results, trace, toggles, invoked,
                   choices>>

(* -------------------------- counter facade ----------------------------- *)
(* next(): let output = bucket.get(); bucket.inc(width); output            *)
CountingBucket_get_after(value) == value + 1

CountingBucket_get(value) == value

CountingBucket_inc_none(value, increment) == value

CountingBucket_inc_twice(value, increment) == value + 2 * increment

CountingBucket_inc_one(value, increment) == value + 1

CountingBucket_inc(value, increment) == value + increment

Get(t) ==
    /\ pc[t] = "get"
    /\ val' = [val EXCEPT ![t] = CountingBucket_get(At(outputs, reached[t]))]
    /\ pc' = [pc EXCEPT ![t] = "inc"]
    /\ UNCHANGED tableVars
    /\ UNCHANGED <<paramVars, status, netVars, outputs, cur, reached,
                   results, trace, toggles, invoked, choices>>

Inc(t) ==
    /\ pc[t] = "inc"
    /\ outputs' = [outputs EXCEPT ![reached[t] + 1] =
                                  CountingBucket_inc(@, Network_width)]
    /\ results' = [results EXCEPT ![t] = Append(@, val[t])]
    /\ pc' = [pc EXCEPT ![t] = "idle"]
    /\ UNCHANGED tableVars
    /\ UNCHANGED <<paramVars, status, netVars, cur, reached, val, trace,
                   toggles, invoked, choices>>

(* ---------------------------- specifications --------------------------- *)
(* any interleaving of the threads' atomic steps *)
Next ==
    \/ New
    \/ \E t \in Threads : Begin(t, MaxCalls)
    \/ \E t \in Threads : Step(t)
    \/ \E t \in Threads : Get(t)
    \/ \E t \in Threads : Inc(t)

Spec == Init /\ [][Next]_vars

(* one thread only: the others never call *)
Solo(t) == \A u \in Threads \ {t} : pc[u] = "idle" /\ results[u] = <<>>

NextSeq ==
    \/ New
    \/ \E t \in Threads : Solo(t) /\ Begin(t, MaxSeqCalls)
    \/ \E t \in Threads : Solo(t) /\ Step(t)
    \/ \E t \in Threads : Solo(t) /\ Get(t)
    \/ \E t \in Threads : Solo(t) /\ Inc(t)
    \/ Drop

SpecSeq == InitWide /\ [][NextSeq]_vars

(* several threads, one call at a time: a call starts only at quiescence *)
NextSerial ==
    \/ New
    \/ \E t \in Threads : Quiescent /\ Begin(t, MaxSerialCalls)
    \/ \E t \in Threads : Step(t)
    \/ \E t \in Threads : Get(t)
    \/ \E t \in Threads : Inc(t)

SpecSerial == InitWide /\ [][NextSerial]_vars

(* any interleaving, with the invocation history recorded *)
InitOrder == InitUpTo(MaxConcWidth, MaxOrderHash)

NextOrder ==
    \/ New
    \/ \E t \in Threads : Invoke(t, MaxCalls)
    \/ \E t \in Threads : Step(t)
    \/ \E t \in Threads : Get(t)
    \/ \E t \in Threads : Inc(t)

SpecOrder == InitOrder /\ [][NextOrder]_vars

(* any interleaving on the narrowest counters, with one more call *)
InitPair == InitUpTo(MaxPairWidth, MaxOrderHash)

NextPair ==
    \/ New
    \/ \E t \in Threads : Begin(t, MaxPairCalls)
    \/ \E t \in Threads : Step(t)
    \/ \E t \in Threads : Get(t)
    \/ \E t \in Threads : Inc(t)

SpecPair == InitPair /\ [][NextPair]_vars

(* ------------------------------ properties ----------------------------- *)
Count(seq, k) == Cardinality({i \in 1..Len(seq) : seq[i] = k})

Returned == {<<t, i>> : t \in Threads, i \in 1..MaxSeqCalls}
              \cap {p \in Threads \X (1..MaxSeqCalls) : p[2] <= Len(results[p[1]])}

ValueOf(p) == results[p[1]][p[2]]

NoTraversalInFlight == \A t \in Threads : pc[t] # "walk"

PowersOfTwo == {1, 2, 4, 8, 16}

NothingBuilt ==
    /\ width = 0
    /\ segments = <<>>
    /\ last_segments = <<>>
    /\ heap = <<>>
    /\ balancers = <<>>
    /\ outputs = <<>>
    /\ trace = <<>>

(* C1: under every interleaving of concurrent next() calls, no two calls   *)
(* return the same value.                                                  *)
C1_NoDuplicateReturns ==
    \A p \in Returned : \A q \in Returned :
        p # q => ValueOf(p) # ValueOf(q)

(* C2: when every one of the P threads has completed M calls and nothing   *)
(* is in flight, the returned values are 0..P*M-1, each exactly once.      *)
C2_CompleteAfterAllCalls ==
    \A M \in 1..MaxCalls :
        (Quiescent /\ \A t \in Threads : Len(results[t]) = M)
            => \A v \in 0..(NumThreads * M - 1) :
                   Cardinality({p \in Returned : ValueOf(p) = v}) = 1

(* C3: step property.  With no traversal in flight, the numbers x_k of     *)
(* traversals that ended at output k add up to the number of traversals    *)
(* and satisfy x_i >= x_j, x_i - x_j in {0, 1} for i < j.                  *)
C3_StepProperty ==
    (status = "built" /\ NoTraversalInFlight) =>
        \A i \in 0..(width - 1) : \A j \in 0..(width - 1) :
            i < j => /\ Count(trace, i) >= Count(trace, j)
                     /\ Count(trace, i) - Count(trace, j) \in {0, 1}

(* C4: a single thread's T consecutive next() calls on a fresh counter     *)
(* return, as a set, exactly 0..T-1 (sorted: 0, 1, ..., T-1).              *)
C4_SequentialComplete ==
    \A t \in Threads :
        (Solo(t) /\ pc[t] = "idle") =>
            /\ {results[t][i] : i \in 1..Len(results[t])}
                   = 0..(Len(results[t]) - 1)
            /\ \A i \in 1..Len(results[t]) : \A j \in 1..Len(results[t]) :
                   i # j => results[t][i] # results[t][j]

C4_Witness ==
    \E t \in Threads :
        /\ impl = "arena" /\ width = 8 /\ Solo(t) /\ pc[t] = "idle"
        /\ Len(results[t]) >= 9

(* C5: whatever the width, the t-th sequential next() call (0-based)       *)
(* returns t, as a plain fetch-and-increment integer starting at 0 would.  *)
C5_WidthIndependent ==
    \A t \in Threads :
        Solo(t) => \A i \in 1..Len(results[t]) : results[t][i] = i - 1

C5_Witness ==
    \E t \in Threads :
        /\ impl = "ptr" /\ width = 4 /\ Solo(t)
        /\ Len(results[t]) >= 9 /\ results[t][9] = 8

(* C6: used by one thread, the t-th traverse() call (0-based) returns the  *)
(* output cell at position t mod w, whatever the thread's input wire.      *)
C6_SequentialRoundRobin ==
    (status = "built" /\ \E t \in Threads : Solo(t)) =>
        \A i \in 1..Len(trace) : trace[i] = (i - 1) % width

C6_Witness ==
    \E t \in Threads :
        /\ impl = "arena" /\ width = 8 /\ Solo(t) /\ input_slot(t) = 5
        /\ Len(trace) >= 10 /\ trace[10] = 1

(* C7: a counter of width 1 can be constructed, and its sequential next()  *)
(* calls return 0, 1, 2, 3 in that order.                                  *)
C7_WidthOneCounter ==
    (status # "unbuilt" /\ nOutputs = 1 /\ reqWidth \in {NoWidth, 1}) =>
        /\ status = "built"
        /\ \A t \in Threads :
               Solo(t) => \A i \in 1..Len(results[t]) : results[t][i] = i - 1

C9_ZeroWidthFails ==
    (status # "unbuilt" /\ (nOutputs = 0 \/ reqWidth = 0)) =>
        (status = "panicked" /\ NothingBuilt)

C9_Witness ==
    /\ impl = "arena" /\ nOutputs = 0 /\ status = "panicked"

(* C10: new(width, outputs) fails whenever the number of outputs differs   *)
(* from the requested width, even when that width is a power of two.       *)
C10_WidthMismatchFails ==
    (impl = "ptrw" /\ status # "unbuilt" /\ nOutputs # reqWidth) =>
        (status = "panicked" /\ NothingBuilt)

C10_Witness ==
    /\ impl = "ptrw" /\ reqWidth = 4 /\ nOutputs = 2 /\ status = "panicked"

(* a step of traverse() by thread t: it enters the network or moves on     *)
TraverseStep(t) ==
    /\ pc[t] \in {"idle", "walk"}
    /\ <<pc'[t], cur'[t]>> # <<pc[t], cur[t]>>

(* C11: width() is the number of outputs supplied and outputs() lists the  *)
(* cells in the order supplied (cell k still holds its initial value k     *)
(* while no bucket update has run); no step of traverse() changes width()  *)
(* or outputs().                                                           *)
C11_WidthOutputsFrame ==
    [][/\ status' = "built" =>
            /\ Network_width' = nOutputs'
            /\ Len(Network_outputs') = nOutputs'
            /\ (\A t \in Threads : results'[t] = <<>>) =>
                   \A k \in 0..(nOutputs' - 1) : At(Network_outputs', k) = k
       /\ (\E t \in Threads : TraverseStep(t)) =>
              UNCHANGED <<Network_width, Network_outputs>>]_vars

C11_Witness ==
    /\ status = "built" /\ width = 4 /\ Len(trace) = 2
    /\ \A t \in Threads : results[t] = <<>>
    /\ Network_outputs = <<0, 1, 2, 3>>

(* L(w) = log2(w) * (log2(w) + 1) / 2 *)
Depth(w) == (log2_floor(w) * (log2_floor(w) + 1)) \div 2

(* successors of a segment, and the numbers of balancers met on the paths  *)
(* from a segment to an output cell (-1: the path leaves the graph)        *)
Successors(seg) ==
    IF impl = "arena"
    THEN {SegmentRef(At(At(segments, seg.ptr).next_segments, i)) : i \in {0, 1}}
    ELSE {At(heap[seg.ptr].outputs, i) : i \in {0, 1}}

RECURSIVE PathLengths(_)
PathLengths(seg) ==
    IF IsOutput(seg) THEN {0}
    ELSE IF seg.tag = "Internal" /\ seg.ptr = DANGLING THEN {0 - 1}
    ELSE UNION {{IF n < 0 THEN n ELSE n + 1 : n \in PathLengths(s)} :
                   s \in Successors(seg)}

(* C12: every traverse() ends at an output cell after exactly L(w)         *)
(* balancer toggles, and every path from an entry segment to an output     *)
(* passes exactly L(w) balancers, whatever the balancer bits are (the      *)
(* successor pointers never change, so the paths are enumerated while no   *)
(* traversal has completed yet).                                           *)
C12_ExactlyLToggles ==
    status = "built" =>
        /\ \A t \in Threads :
              /\ pc[t] # "panicked"
              /\ pc[t] \in {"get", "inc"} => toggles[t] = Depth(width)
              /\ pc[t] = "walk" => toggles[t] < Depth(width)
        /\ trace = <<>> =>
              \A slot \in 0..(width - 1) :
                  /\ ~start_segment(slot).panic
                  /\ PathLengths(start_segment(slot).seg) = {Depth(width)}

C12_Witness ==
    \E t \in Threads :
        /\ impl = "ptr" /\ width = 8 /\ input_slot(t) = 5
        /\ pc[t] = "get" /\ toggles[t] = 6 /\ Len(trace) = 4

(* the steps of thread t's own call, and how many it has taken so far      *)
OwnStep(t) == Step(t) \/ Get(t) \/ Inc(t)

OwnSteps(t) == toggles[t] + (IF pc[t] = "inc" THEN 1 ELSE 0)

(* C13: wait-freedom.  In every reachable state, wherever the other        *)
(* threads stand (possibly stopped in the middle of their calls), every    *)
(* in-flight call has a step of its own enabled, and it has taken at most  *)
(* L(w) + 1 of the L(w) + 2 steps (L(w) toggles, the read, the add) after  *)
(* which it is complete.                                                   *)
C13_WaitFree ==
    \A t \in Threads :
        pc[t] \in {"walk", "get", "inc"} =>
            /\ ENABLED OwnStep(t)
            /\ OwnSteps(t) <= Depth(width) + 1
            /\ pc[t] = "walk" => toggles[t] < Depth(width)
            /\ pc[t] \in {"get", "inc"} => toggles[t] = Depth(width)

C13_Witness ==
    /\ impl = "ptr" /\ width = 4
    /\ pc[1] = "inc" /\ OwnSteps(1) = 4
    /\ pc[2] = "walk" /\ toggles[2] = 1 /\ ENABLED OwnStep(2)

(* A second network built from the same arguments, and what it returns     *)
(* when it is driven by the same entry wires in the same order.            *)
Fresh ==
    [width |-> width,
     segments |-> [p \in 1..Len(segments) |->
                      [segments[p] EXCEPT !.value = (segments[p].tag = "Balancer")]],
     last_segments |-> last_segments,
     heap |-> [p \in 1..Len(heap) |-> [heap[p] EXCEPT !.value = 0]],
     balancers |-> balancers]

NetOf(net) ==
    [width |-> net.width, segments |-> net.segments,
     last_segments |-> net.last_segments, heap |-> net.heap,
     balancers |-> net.balancers]

ReplayStart(net, slot) ==
    IF impl = "arena"
    THEN LET idx == At(net.last_segments, slot)
         IN [tag |-> At(net.segments, idx).tag, ptr |-> idx]
    ELSE Internal(At(net.balancers,
                     get_layer_range(0, net.width \div 2).start + slot \div 2))

RECURSIVE ReplayWalk(_, _)
ReplayWalk(net, seg) ==
    IF seg.tag = "End"
    THEN [net |-> net, output |-> At(net.segments, seg.ptr).output]
    ELSE IF seg.tag = "Leaf" THEN [net |-> net, output |-> seg.ptr]
    ELSE IF impl = "arena"
    THEN LET balancer == At(net.segments, seg.ptr)
             idx == At(balancer.next_segments, toggle_up_arena(balancer))
         IN ReplayWalk([net EXCEPT !.segments[seg.ptr + 1].value = ~@],
                       [tag |-> At(net.segments, idx).tag, ptr |-> idx])
    ELSE LET balancer == net.heap[seg.ptr]
         IN ReplayWalk([net EXCEPT !.heap[seg.ptr].value = @ + 1],
                       At(balancer.outputs, toggle_up_ptr(balancer)))

RECURSIVE ReplayTrace(_, _, _)
ReplayTrace(net, slot, n) ==
    IF n = 0 THEN <<>>
    ELSE LET first == ReplayWalk(net, ReplayStart(net, slot))
         IN <<first.output>> \o ReplayTrace(first.net, slot, n - 1)

Pending(k) == {t \in Threads : pc[t] \in {"get", "inc"} /\ reached[t] = k}

(* number of next() calls that completed their increment on bucket k *)
Incremented(k) == Count(trace, k) - Cardinality(Pending(k))

C16_OutputSeries ==
    status = "built" =>
        /\ \A t \in Threads :
              pc[t] = "inc" =>
                  /\ val[t] % width = reached[t]
                  /\ val[t] >= reached[t]
        /\ \A t \in Threads :
              (pc[t] = "idle" /\ results[t] # <<>>) =>
                  /\ results[t][Len(results[t])] % width = reached[t]
                  /\ results[t][Len(results[t])] >= reached[t]

C16_Witness ==
    \E t \in Threads :
        /\ width = 2 /\ pc[t] = "idle" /\ reached[t] = 0
        /\ results[t] # <<>> /\ results[t][Len(results[t])] = 2

(* C17: on every balancer, in the order of the atomic toggles, consecutive *)
(* steps take alternating successors; after n steps ceil(n/2) tokens took  *)
(* the successor the first token took and floor(n/2) took the other, in    *)
(* every interleaving.                                                     *)
C17_BalancerAlternates ==
    \A b \in 1..Len(choices) :
        LET n == Len(choices[b])
        IN /\ \A i \in 1..(n - 1) : choices[b][i + 1] = 1 - choices[b][i]
           /\ n > 0 =>
                 /\ Count(choices[b], choices[b][1]) = (n + 1) \div 2
                 /\ Count(choices[b], 1 - choices[b][1]) = n \div 2

C17_Witness ==
    /\ impl = "ptr" /\ width = 2
    /\ \E t \in Threads : pc[t] = "get"
    /\ \E t \in Threads : pc[t] = "inc"
    /\ \E b \in 1..Len(choices) : choices[b] = <<0, 1, 0>>

(* the reference sequences of the generator for w = 2, 4, 8 *)
ReferenceSequence(w) ==
    IF w = 2 THEN << <<0, 1>> >>
    ELSE IF w = 4
    THEN << <<0, 1>>, <<2, 3>>, <<0, 3>>, <<1, 2>>, <<0, 1>>, <<2, 3>> >>
    ELSE << <<0, 1>>, <<2, 3>>, <<0, 3>>, <<1, 2>>, <<0, 1>>, <<2, 3>>,
            <<4, 5>>, <<6, 7>>, <<4, 7>>, <<5, 6>>, <<4, 5>>, <<6, 7>>,
            <<0, 7>>, <<2, 5>>, <<0, 2>>, <<5, 7>>, <<1, 6>>, <<3, 4>>,
            <<1, 3>>, <<4, 6>>, <<0, 1>>, <<2, 3>>, <<4, 5>>, <<6, 7>> >>

(* C18: the recursive schedule (Bitonic on the top half, Bitonic on the    *)
(* bottom half, then Merge, each Merge emitting its two child merges and   *)
(* then its final balancers top-down) emits exactly the reference          *)
(* sequences for w = 2, 4 and 8; these are the sequences Network::new is   *)
(* handed when it builds a network of that width.                          *)
C18_ReferenceSequences ==
    (impl = "arena" /\ status = "built" /\ width \in {2, 4, 8}) =>
        /\ ~from_width(nOutputs).panic
        /\ from_width(nOutputs).pairs = ReferenceSequence(width)
        /\ Len(segments) = width + Len(ReferenceSequence(width))

C18_Witness ==
    /\ impl = "arena" /\ status = "built" /\ width = 8
    /\ Len(from_width(nOutputs).pairs) = 24
    /\ from_width(nOutputs).pairs[13] = <<0, 7>>
    /\ \E t \in Threads : Len(results[t]) = 1

(* number of emitted pairs that touch wire i *)
PairsOnWire(pairs, i) ==
    Cardinality({p \in 1..Len(pairs) : i \in {pairs[p][1], pairs[p][2]}})

(* C19: for every power-of-two width w >= 2 the generator emits exactly    *)
(* (w/2) * L(w) pairs, L(w) = log2(w) * (log2(w) + 1) / 2, every pair      *)
(* (i, j) has 0 <= i < j < w, and every wire occurs in exactly L(w)        *)
(* pairs; num_layers(w) is L(w) and the constructors allocate that many    *)
(* balancers, L(w) of them on every wire.                                  *)
C19_BalancerCounts ==
    (status = "built" /\ CallsStarted = 0) =>
        /\ width >= 2 => is_power_of_two(width)
        /\ \A w \in {v \in 2..MaxGenWidth : is_power_of_two(v)} :
              LET L == Depth(w)
                  pairs == from_width(w).pairs
              IN /\ \A checks \in BOOLEAN :
                       /\ ~num_layers(w, checks).panic
                       /\ num_layers(w, checks).value = L
                 /\ Len(pairs) = (w \div 2) * L
                 /\ \A p \in 1..Len(pairs) :
                       /\ 0 <= pairs[p][1]
                       /\ pairs[p][1] < pairs[p][2]
                       /\ pairs[p][2] < w
                 /\ \A i \in 0..(w - 1) : PairsOnWire(pairs, i) = L
        /\ (width >= 2 /\ impl = "arena") =>
              Len(segments) = width + (width \div 2) * Depth(width)
        /\ (width >= 2 /\ impl # "arena") =>
              /\ Len(heap) = (width \div 2) * Depth(width)
              /\ Len(balancers) = (width \div 2) * Depth(width)
              /\ \A checks \in BOOLEAN :
                    LET wires == construct_bitonic(width, 0, <<>>, checks).wires
                    IN /\ Len(wires) = width
                       /\ \A k \in 1..width :
                             Wire_num_balancers(wires[k]) = Depth(width)
                       /\ sum_num_balancers(wires) = width * Depth(width)

C19_Witness ==
    /\ impl = "ptr" /\ status = "built" /\ CallsStarted = 0 /\ width = 8
    /\ Len(heap) = 24 /\ Len(from_width(width).pairs) = 24
    /\ PairsOnWire(from_width(width).pairs, 5) = 6

(* Arena: the balancer made for the p-th emitted pair is segment           *)
(* width + p - 1.  EmittedOn lists, in emission order, the balancers       *)
(* emitted for wire i; MetOn lists the balancers met when wire i is        *)
(* followed from its entry segment (successor 0 continues the top wire of  *)
(* a pair, successor 1 the bottom wire); WireEnd is where the wire ends.   *)
RECURSIVE EmittedOn(_, _, _)
EmittedOn(pairs, i, p) ==
    IF p > Len(pairs) THEN <<>>
    ELSE (IF i \in {pairs[p][1], pairs[p][2]} THEN <<width + p - 1>> ELSE <<>>)
         \o EmittedOn(pairs, i, p + 1)

AlongWire(pairs, i, idx) ==
    At(At(segments, idx).next_segments,
       IF pairs[idx - width + 1][1] = i THEN 0 ELSE 1)

RECURSIVE MetOn(_, _, _)
MetOn(pairs, i, idx) ==
    IF At(segments, idx).tag = "End" THEN <<>>
    ELSE <<idx>> \o MetOn(pairs, i, AlongWire(pairs, i, idx))

RECURSIVE WireEnd(_, _, _)
WireEnd(pairs, i, idx) ==
    IF At(segments, idx).tag = "End" THEN idx
    ELSE WireEnd(pairs, i, AlongWire(pairs, i, idx))

Reverse(s) == [k \in 1..Len(s) |-> s[Len(s) + 1 - k]]

ArenaFresh == impl = "arena" /\ status = "built" /\ CallsStarted = 0

(* C20 as stated: in the network Network::new builds from the generator's  *)
(* sequence, the k-th balancer emitted for wire i is the k-th balancer met *)
(* when wire i is followed from its entry segment toward the output.       *)
C20_EmissionShallowestFirst ==
    ArenaFresh =>
        LET pairs == from_width(width).pairs
        IN \A i \in 0..(width - 1) :
               MetOn(pairs, i, At(last_segments, i)) = EmittedOn(pairs, i, 1)

(* C20 amended: the k-th balancer emitted for wire i is the k-th balancer  *)
(* counted from the output end of wire i (the first pair emitted for a     *)
(* wire is linked straight to the wire's End segment, the last one is the  *)
(* wire's entry segment): emission order is deepest-first.                 *)
C20_EmissionDeepestFirst ==
    ArenaFresh =>
        LET pairs == from_width(width).pairs
        IN \A i \in 0..(width - 1) :
               /\ MetOn(pairs, i, At(last_segments, i))
                      = Reverse(EmittedOn(pairs, i, 1))
               /\ WireEnd(pairs, i, At(last_segments, i)) = i

C20_Witness ==
    /\ ArenaFresh /\ width = 8
    /\ EmittedOn(from_width(width).pairs, 0, 1) = <<8, 10, 12, 20, 22, 28>>
    /\ MetOn(from_width(width).pairs, 0, At(last_segments, 0))
           = <<28, 22, 20, 12, 10, 8>>

(* successors of balancers that are End segments: where wires end *)
LastLinks ==
    {<<p, i>> \in (1..Len(segments)) \X {0, 1} :
        /\ segments[p].tag = "Balancer"
        /\ At(segments[p].next_segments, i) < width}

(* C21 as stated: after Network::new the segment with identifier k, the    *)
(* initial value of latest[k], is the output cell at position k, and a     *)
(* token leaving the last balancer on wire k arrives at output cell k.     *)
C21_SegmentKIsOutputK ==
    ArenaFresh =>
        /\ \A k \in 0..(width - 1) :
              /\ At(segments, k).tag = "End"
              /\ At(segments, k).output = k
        /\ \A l \in LastLinks :
              LET k == At(segments[l[1]].next_segments, l[2])
              IN SegmentRef(k).tag = "End" /\ OutputOf(SegmentRef(k)) = k

(* C21 amended: the End segments are pushed in reverse, so the segment     *)
(* with identifier k, the initial value of latest[k], is the output cell   *)
(* at position w - 1 - k, and a token leaving the last balancer on wire k  *)
(* (the balancer whose successor is segment k) arrives at output cell      *)
(* w - 1 - k.                                                              *)
C21_SegmentKIsOutputReversed ==
    ArenaFresh =>
        /\ \A k \in 0..(width - 1) :
              /\ At(segments, k).tag = "End"
              /\ At(segments, k).output = width - 1 - k
        /\ \A l \in LastLinks :
              LET k == At(segments[l[1]].next_segments, l[2])
              IN /\ SegmentRef(k).tag = "End"
                 /\ OutputOf(SegmentRef(k)) = width - 1 - k
        /\ width >= 2 =>
              {At(segments[l[1]].next_segments, l[2]) : l \in LastLinks}
                  = 0..(width - 1)

C21_Witness ==
    /\ ArenaFresh /\ width = 8
    /\ At(segments, 2).output = 5
    /\ <<9, 0>> \in LastLinks
    /\ At(segments[9].next_segments, 0) = 0

(* step property of a sequence of output positions *)
StepOK(seq) ==
    \A i \in 0..(width - 1) : \A j \in 0..(width - 1) :
        i < j => /\ Count(seq, i) >= Count(seq, j)
                 /\ Count(seq, i) - Count(seq, j) \in {0, 1}

(* the network as constructed, but with the other initial value in every   *)
(* balancer: false in the arena, an odd counter in the pointer versions    *)
Flipped ==
    [Fresh EXCEPT
        !.segments = [p \in 1..Len(segments) |->
                         [segments[p] EXCEPT !.value = FALSE]],
        !.heap = [p \in 1..Len(heap) |-> [heap[p] EXCEPT !.value = 1]]]

C23_SuccessorsSet ==
    status = "built" =>
        /\ \A p \in 1..Len(segments) :
              segments[p].tag = "Balancer" =>
                  \A i \in {0, 1} :
                      /\ At(segments[p].next_segments, i) >= 0
                      /\ At(segments[p].next_segments, i) < p - 1
        /\ \A p \in 1..Len(segments) :
              segments[p].tag = "End" =>
                  /\ p <= width
                  /\ segments[p].output \in 0..(width - 1)
        /\ \A b \in 1..Len(heap) :
              \A i \in {0, 1} :
                  LET succ == At(heap[b].outputs, i)
                  IN IF succ.tag = "Leaf" THEN succ.ptr \in 0..(width - 1)
                     ELSE /\ succ.tag = "Internal"
                          /\ succ.ptr # DANGLING
                          /\ succ.ptr > b
                          /\ succ.ptr <= Len(heap)

C23_Witness ==
    /\ impl = "arena" /\ status = "built" /\ width = 8
    /\ Len(segments) = 32
    /\ At(segments, 31).next_segments = <<27, 23>>
    /\ \E t \in Threads : Len(results[t]) = 3

(* the two sides of debug_assert_eq!(segments.len(), next_segment_idx) *)
SegmentsAssertion(n) ==
    LET linked == link_balancers(from_width(n).pairs,
                      [k \in 1..n |-> k - 1], <<>>, n)
        pushed == push_balancers(linked.balancers, end_segments(n))
    IN [panic |-> pushed.panic, len |-> Len(pushed.segments),
        next_segment_idx |-> linked.next_segment_idx]

(* C24: after Network::new the arena holds w + (w/2) * L(w) segments, the  *)
(* w output cells first and then one balancer segment per emitted pair,    *)
(* and the construction-time assertion segments.len() == next_segment_idx  *)
(* never fails: construction with the debug checks compiled in succeeds    *)
(* for every nonzero power-of-two number of outputs.                       *)
C24_SegmentCount ==
    impl = "arena" =>
        /\ status = "built" =>
              /\ Len(segments) = width + (width \div 2) * Depth(width)
              /\ \A p \in 1..Len(segments) :
                    segments[p].tag = (IF p <= width THEN "End" ELSE "Balancer")
              /\ CallsStarted = 0 =>
                    LET a == SegmentsAssertion(width)
                    IN /\ ~a.panic
                       /\ a.len = a.next_segment_idx
                       /\ a.len = Len(segments)
                       /\ ~Network_new(width, TRUE).panic
        /\ status = "panicked" => (nOutputs = 0 \/ ~is_power_of_two(nOutputs))

C24_Witness ==
    /\ impl = "arena" /\ status = "built" /\ width = 8
    /\ Len(segments) = 32
    /\ SegmentsAssertion(8).next_segment_idx = 32
    /\ segments[8].tag = "End" /\ segments[9].tag = "Balancer"
    /\ \E t \in Threads : Len(results[t]) = 2

(* the constructed graph: balancers, output cells, links and entries *)
BalancerNodes ==
    IF impl = "arena"
    THEN {SegmentRef(i) : i \in width..(Len(segments) - 1)}
    ELSE {Internal(b) : b \in 1..Len(heap)}

OutputNodes ==
    IF impl = "arena"
    THEN {SegmentRef(i) : i \in 0..(width - 1)}
    ELSE {Leaf(k) : k \in 0..(width - 1)}

EntrySegments == {start_segment(slot).seg : slot \in 0..(width - 1)}

SuccessorAt(seg, i) ==
    IF impl = "arena"
    THEN SegmentRef(At(At(segments, seg.ptr).next_segments, i))
    ELSE At(heap[seg.ptr].outputs, i)

(* balancers that have seg as a successor, and the links that lead to it *)
Predecessors(seg) == {b \in BalancerNodes : seg \in Successors(b)}

LinksInto(seg) ==
    {l \in BalancerNodes \X {0, 1} : SuccessorAt(l[1], l[2]) = seg}

(* C25: in the constructed graph (w >= 2) every balancer that is not an    *)
(* entry segment is the successor of exactly two distinct upstream         *)
(* balancers, entry balancers have no predecessor, and every output cell   *)
(* is the successor of exactly one balancer.                               *)
C25_PredecessorCounts ==
    (status = "built" /\ width >= 2 /\ CallsStarted = 0) =>
        /\ \A b \in BalancerNodes :
              /\ b \in EntrySegments => Predecessors(b) = {}
              /\ b \notin EntrySegments =>
                    /\ Cardinality(Predecessors(b)) = 2
                    /\ Cardinality(LinksInto(b)) = 2
        /\ \A o \in OutputNodes :
              /\ Cardinality(Predecessors(o)) = 1
              /\ Cardinality(LinksInto(o)) = 1
        /\ EntrySegments \subseteq BalancerNodes
        /\ Cardinality(EntrySegments) = width \div 2

C25_Witness ==
    /\ impl = "arena" /\ status = "built" /\ width = 8
    /\ SegmentRef(8) \notin EntrySegments
    /\ Predecessors(SegmentRef(8)) = {SegmentRef(10), SegmentRef(11)}
    /\ Predecessors(SegmentRef(3)) = {SegmentRef(9)}
    /\ SegmentRef(31) \in EntrySegments
    /\ CallsStarted = 0

(* segments reachable from seg by following successor links *)
RECURSIVE ReachableFrom(_)
ReachableFrom(seg) ==
    IF IsOutput(seg) \/ (seg.tag = "Internal" /\ seg.ptr = DANGLING)
    THEN {seg}
    ELSE {seg} \cup UNION {ReachableFrom(s) : s \in Successors(seg)}

(* C26: every output cell is reachable from at least one entry segment by  *)
(* following successor links; the entry segment latest[k] is defined for   *)
(* every wire k in 0..w and, for w >= 2, is a balancer.                    *)
C26_OutputsReachable ==
    (status = "built" /\ width >= 1 /\ CallsStarted = 0) =>
        /\ \A slot \in 0..(width - 1) :
              /\ ~start_segment(slot).panic
              /\ width >= 2 => start_segment(slot).seg \in BalancerNodes
        /\ impl = "arena" =>
              /\ Len(last_segments) = width
              /\ \A k \in 0..(width - 1) :
                    At(last_segments, k) \in 0..(Len(segments) - 1)
        /\ \A o \in OutputNodes :
              \E e \in EntrySegments : o \in ReachableFrom(e)

C26_Witness ==
    /\ impl = "arena" /\ status = "built" /\ width = 8 /\ CallsStarted = 0
    /\ At(last_segments, 5) = 30
    /\ SegmentRef(0) \in ReachableFrom(SegmentRef(30))
    /\ SegmentRef(7) \in ReachableFrom(SegmentRef(30))

(* pointer versions: the first balancer in the history of the wire whose   *)
(* value is s, as construct_bitonic leaves the wires                       *)
FirstBalancerOn(s) ==
    LET wires == construct_bitonic(width, 0, <<>>, FALSE).wires
        i == CHOOSE j \in 1..Len(wires) : wires[j].value = s
    IN Internal(Head(wires[i].balancer_history).balancer)

(* C27: in the pointer versions, for w >= 2 and every entry slot s in      *)
(* 0..w, the lookup balancers[layer 0][s / 2] is in bounds and yields the  *)
(* first balancer on input wire s; wires 2k and 2k+1 share their entry     *)
(* balancer, and a traversal that has not toggled yet stands on it.        *)
C27_EntryBalancer ==
    (impl # "arena" /\ status = "built" /\ width >= 2) =>
        /\ \A t \in Threads :
              /\ pc[t] # "panicked"
              /\ (pc[t] = "walk" /\ toggles[t] = 0) =>
                    /\ cur[t] = start_segment(input_slot(t)).seg
                    /\ cur[t] = FirstBalancerOn(input_slot(t))
        /\ CallsStarted = 0 =>
              /\ \A s \in 0..(width - 1) :
                    /\ ~start_segment(s).panic
                    /\ s \div 2 < Len(balancers)
                    /\ start_segment(s).seg = Internal(At(balancers, s \div 2))
                    /\ start_segment(s).seg = FirstBalancerOn(s)
              /\ \A k \in 0..(width \div 2 - 1) :
                    /\ start_segment(2 * k) = start_segment(2 * k + 1)
                    /\ k > 0 => start_segment(2 * k) # start_segment(2 * k - 1)

C27_Witness ==
    /\ impl = "ptr" /\ status = "built" /\ width = 8
    /\ \E t \in Threads :
          /\ pc[t] = "walk" /\ toggles[t] = 0 /\ input_slot(t) = 5
          /\ cur[t] = FirstBalancerOn(5)
          /\ cur[t] = FirstBalancerOn(4)
          /\ cur[t] = Internal(At(balancers, 2))
          /\ Len(results[t]) = 1

(* the balancer bit as the traversal reads it *)
BitOf(segs, hp, b) ==
    IF impl = "arena" THEN usize(segs[b].value) ELSE hp[b].value % 2

(* position of a balancer in segments (arena) or in the heap *)
BalancerAt(seg) == IF impl = "arena" THEN seg.ptr + 1 ELSE seg.ptr

LinksOf(segs, hp, b) ==
    IF impl = "arena" THEN <<segs[b].tag, segs[b].output, segs[b].next_segments>>
    ELSE hp[b].outputs

(* C28: a traverse() call flips the bit of exactly the balancers it        *)
(* visits, once each, and changes nothing else: every toggle flips the     *)
(* bit of the balancer the call stands on and moves on to a segment the    *)
(* call has not visited (the links only lead away from the entry); the     *)
(* other balancers keep their bit, and successor links, entry table,       *)
(* width and output cells are unchanged by every step of the call.         *)
C28_TraverseFrame ==
    [][\A t \in Threads :
          /\ Step(t) =>
                LET b == BalancerAt(cur[t])
                    n == Len(segments) + Len(heap)
                IN /\ Len(segments') = Len(segments)
                   /\ Len(heap') = Len(heap)
                   /\ BitOf(segments', heap', b) = 1 - BitOf(segments, heap, b)
                   /\ IF impl = "arena"
                      THEN segments'[b].value = ~segments[b].value
                      ELSE heap'[b].value = heap[b].value + 1
                   /\ \A o \in (1..n) \ {b} :
                         /\ impl = "arena" => segments'[o] = segments[o]
                         /\ impl # "arena" => heap'[o] = heap[o]
                   /\ \A o \in 1..n :
                         LinksOf(segments', heap', o) = LinksOf(segments, heap, o)
                   /\ Len(choices'[b]) = Len(choices[b]) + 1
                   /\ pc'[t] = "walk" =>
                         IF impl = "arena" THEN cur'[t].ptr < cur[t].ptr
                         ELSE cur'[t].ptr > cur[t].ptr
                   /\ UNCHANGED <<width, last_segments, balancers, outputs>>
          /\ TraverseStep(t) =>
                /\ UNCHANGED <<width, last_segments, balancers, outputs>>
                /\ pc[t] = "idle" => UNCHANGED <<segments, heap>>]_vars

C28_Witness ==
    /\ status = "built" /\ impl = "arena" /\ width = 4
    /\ \E t \in Threads :
          /\ pc[t] = "walk" /\ toggles[t] = 2
          /\ cur[t] = SegmentRef(5)
          /\ Len(choices[9]) = 1 /\ ~segments[9].value
          /\ Len(choices[8]) = 1 /\ ~segments[8].value
          /\ Len(choices[10]) = 0 /\ segments[10].value
          /\ results[t] = <<>>

RECURSIVE SumOfBuckets(_)
SumOfBuckets(buckets) ==
    IF buckets = <<>> THEN 0
    ELSE Head(buckets) + SumOfBuckets(Tail(buckets))

NoValue == 0 - 1

CallValue(t) ==
    IF pc[t] = "inc" THEN val[t]
    ELSE IF pc[t] = "idle" /\ results[t] # <<>>
    THEN results[t][Len(results[t])]
    ELSE NoValue

(* C30 as stated: real-time order.  A call's value is larger than every    *)
(* value that had been returned, by any thread, before the call was        *)
(* invoked, even while other calls are in flight.                          *)
C30_RealTimeOrder ==
    status = "built" =>
        \A t \in Threads :
            CallValue(t) # NoValue => CallValue(t) > invoked[t].seen

(* C30 amended: real-time order holds across a quiescent moment only.  A   *)
(* call invoked while no call is in flight returns a value larger than     *)
(* every value returned before its invocation, and at every quiescent      *)
(* state every bucket holds a value larger than every value returned so    *)
(* far.  A call invoked while another call is in flight may return less    *)
(* than a call that had returned before.  (The counters wrap the pointer   *)
(* networks.)                                                              *)
C30_OrderAcrossQuiescence ==
    (status = "built" /\ impl # "arena") =>
        /\ \A t \in Threads :
              (CallValue(t) # NoValue /\ invoked[t].alone) =>
                  CallValue(t) > invoked[t].seen
        /\ Quiescent =>
              \A k \in 0..(width - 1) : At(outputs, k) > MaxReturned

C30_Witness ==
    /\ status = "built" /\ impl = "ptr" /\ width = 2
    /\ results[1] = <<0>> /\ pc[1] = "idle"
    /\ invoked[2] = [seen |-> 0, alone |-> TRUE]
    /\ pc[2] = "inc" /\ val[2] = 1

LayerOf(d) ==
    LET range == get_layer_range(d, width \div 2)
    IN {At(balancers, i) : i \in range.start..(range.end - 1)}

(* C33: in the pointer-based construction, after new() the balancers list  *)
(* holds every allocated balancer exactly once, w/2 distinct balancers in  *)
(* each of the L(w) layers and none in two layers, so drop releases every  *)
(* balancer and every output cell exactly once: nothing is released twice  *)
(* and nothing allocated is left.                                          *)
C33_DropReleasesOnce ==
    impl # "arena" =>
        /\ status = "built" =>
              /\ Len(balancers) = Len(heap)
              /\ Len(balancers) = (width \div 2) * Depth(width)
              /\ {balancers[i] : i \in 1..Len(balancers)} = 1..Len(heap)
              /\ \A d \in 0..(Depth(width) - 1) :
                    /\ Cardinality(LayerOf(d)) = width \div 2
                    /\ \A e \in 0..(Depth(width) - 1) :
                          e # d => LayerOf(d) \cap LayerOf(e) = {}
              /\ Len(outputs) = width
              /\ ~dealloc_balancers(balancers, heap).double_free
        /\ status # "double_free"
        /\ status = "dropped" =>
              /\ \A b \in 1..Len(heap) : heap[b] = Freed
              /\ Len(heap) = (width \div 2) * Depth(width)
              /\ outputs = <<>>

C33_Witness ==
    /\ impl = "ptr" /\ status = "dropped" /\ width = 8
    /\ Len(heap) = 12 + 12 /\ heap[24] = Freed /\ heap[1] = Freed
    /\ outputs = <<>>
    /\ \E t \in Threads : Len(results[t]) = 2

(* C(n, k) by Pascal's rule *)
RECURSIVE Choose(_, _)
Choose(n, k) ==
    IF k = 0 \/ k = n THEN 1
    ELSE Choose(n - 1, k - 1) + Choose(n - 1, k)

(* the u64 subtraction n - k of binomial_coefficient goes below zero *)
binomial_underflows(n, k) == k > n

(* largest intermediate value of the product loop *)
RECURSIVE binomial_peak(_, _, _, _)
binomial_peak(n, k, value, result) ==
    IF value > k THEN result
    ELSE LET product == result * (n + 1 - value)
             rest == binomial_peak(n, k, value + 1, product \div value)
         IN IF product > rest THEN product ELSE rest

(* a value below 2^31 is well inside the u64 range *)
SmallU64 == 2147483647

(* C36 as stated: num_layers(w) = binomial_coefficient(log2_floor(w) + 1,  *)
(* 2) equals log2(w) * (log2(w) + 1) / 2 for every power of two w >= 1,    *)
(* with no unsigned underflow or overflow in the intermediate arithmetic,  *)
(* in either build profile; binomial_coefficient(n, k) equals C(n, k) for  *)
(* all 0 <= k <= n <= 7.                                                   *)
C36_NumLayersNoUnderflow ==
    (status = "built" /\ CallsStarted = 0) =>
        \A checks \in BOOLEAN :
            /\ \A w \in {v \in 1..MaxGenWidth : is_power_of_two(v)} :
                  LET n == log2_floor(w) + 1
                  IN /\ ~binomial_underflows(n, 2)
                     /\ ~num_layers(w, checks).panic
                     /\ num_layers(w, checks).value = Depth(w)
                     /\ binomial_peak(n, Min(2, n), 1, 1) <= SmallU64
            /\ \A n \in 0..MaxBinomial : \A k \in 0..n :
                  /\ ~binomial_coefficient(n, k, checks).panic
                  /\ binomial_coefficient(n, k, checks).value = Choose(n, k)

(* tokens that have left on output k, and the largest such number *)
Emitted(k) == Count(trace, k)

MaxEmitted ==
    CHOOSE m \in {Emitted(k) : k \in 0..(width - 1)} :
        \A k \in 0..(width - 1) : Emitted(k) <= m

(* C32 as stated: at every quiescent state at most one output wire has     *)
(* emitted fewer tokens than the maximum, and the union of all values      *)
(* emitted so far is a contiguous prefix of the integers.                  *)
C32_OneOutputBehind ==
    (status = "built" /\ width >= 1 /\ Quiescent) =>
        /\ Cardinality({k \in 0..(width - 1) : Emitted(k) < MaxEmitted}) <= 1
        /\ ReturnedSoFar = 0..(Cardinality(ReturnedSoFar) - 1)

(* ------------------------- IntegerHashTable ---------------------------- *)
(* hash_table.rs.  A u32 is kept as its two 16-bit halves, so that the     *)
(* products of hash() stay inside the integers of the model checker.       *)
Half == 65536

u32(n) == [hi |-> (n \div Half) % Half, lo |-> n % Half]

RECURSIVE xor_bits(_, _, _)
xor_bits(a, b, n) ==
    IF n = 0 THEN 0
    ELSE ((a + b) % 2) + 2 * xor_bits(a \div 2, b \div 2, n - 1)

RECURSIVE and_bits(_, _, _)
and_bits(a, b, n) ==
    IF n = 0 THEN 0
    ELSE ((a % 2) * (b % 2)) + 2 * and_bits(a \div 2, b \div 2, n - 1)

(* x ^ y and x & y on u32 *)
bitxor(x, y) == [hi |-> xor_bits(x.hi, y.hi, 16), lo |-> xor_bits(x.lo, y.lo, 16)]

bitand(x, y) == [hi |-> and_bits(x.hi, y.hi, 16), lo |-> and_bits(x.lo, y.lo, 16)]

(* x.wrapping_shr(16) *)
wrapping_shr_16(x) == [hi |-> 0, lo |-> x.hi]

(* the 32-bit product of two 16-bit values, one byte of b at a time *)
mul_16(a, b) ==
    LET p1 == a * (b % 256)
        p2 == a * (b \div 256)
        low == p1 + ((p2 % 256) * 256)
    IN [hi |-> (low \div Half) + (p2 \div 256), lo |-> low % Half]

(* x.wrapping_mul(y): the product modulo 2^32 *)
wrapping_mul(x, y) ==
    LET low == mul_16(x.lo, y.lo)
        cross == mul_16(x.hi, y.lo).lo + mul_16(x.lo, y.hi).lo
    IN [hi |-> (low.hi + cross) % Half, lo |-> low.lo]

(* x + 1 on u32 (idx += 1) *)
wrapping_inc(x) ==
    IF x.lo + 1 < Half THEN [x EXCEPT !.lo = @ + 1]
    ELSE [hi |-> (x.hi + 1) % Half, lo |-> 0]

(* 0x45d9f3b = 1117 * 65536 + 40763 *)
Multiplier == [hi |-> 1117, lo |-> 40763]

(* fn hash(x: u32) -> u32 *)
IntegerHashTable_hash(x) ==
    LET a == wrapping_mul(bitxor(wrapping_shr_16(x), x), Multiplier)
        b == wrapping_mul(bitxor(wrapping_shr_16(a), a), Multiplier)
    IN bitxor(wrapping_shr_16(b), b)

(* hash(key) of the keys the runs use, computed once *)
hash_of_key ==
    [key \in 0..(MaxKey + MaxSharedKey) |-> IntegerHashTable_hash(u32(key))]

(* idx &= (self.capacity - 1) as u32 *)
wrap_index(idx) == bitand(idx, u32(capacity - 1))

(* self.array.add(idx * 2) and self.array.add(idx * 2 + 1), from 1 *)
key_addr(idx) == 2 * (idx.hi * Half + idx.lo) + 1
value_addr(idx) == 2 * (idx.hi * Half + idx.lo) + 2

(* Option<u32> *)
None == <<>>
Some(v) == <<v>>

(* IntegerHashTable::new(capacity): a zeroed array of 2 * capacity cells *)
IntegerHashTable_new(cap) ==
    /\ is_power_of_two(cap)
    /\ capacity = cap
    /\ array = [i \in 1..(2 * cap) |-> 0]
    /\ size = 0
    /\ call = [t \in Threads |-> NoCall]
    /\ history = [t \in Threads |-> <<>>]

(* the counter is not part of a run of the table *)
NoCounter ==
    /\ impl = "ptr"
    /\ nOutputs = 0
    /\ reqWidth = NoWidth
    /\ hash = [t \in Threads |-> 0]
    /\ Unbuilt

InitTable ==
    /\ NoCounter
    /\ \E cap \in 1..MaxCapacity : IntegerHashTable_new(cap)

InitShared ==
    /\ NoCounter
    /\ \E cap \in 1..MaxSharedCapacity : IntegerHashTable_new(cap)

Record(t, op, key, value, ret) ==
    history' = [history EXCEPT ![t] =
                   Append(@, [op |-> op, key |-> key, value |-> value,
                              ret |-> ret])]

Return(t) == call' = [call EXCEPT ![t] = NoCall]

(* set(), lines 58-61: the assertions and the first index *)
set_enter(t, key, value, cap) ==
    /\ capacity > 0
    /\ call[t].pc = "idle"
    /\ Len(history[t]) < cap
    /\ call' = [call EXCEPT ![t] =
                   IF key > 0 /\ value > 0
                   THEN [pc |-> "set_probe", key |-> key, value |-> value,
                         idx |-> hash_of_key[key]]
                   ELSE [NoCall EXCEPT !.pc = "panicked"]]
    /\ UNCHANGED <<capacity, array, size, history>>
    /\ UNCHANGED <<paramVars, counterVars>>

(* set(), lines 64-77: wrap the index and load the key of the slot *)
set_probe(t) ==
    /\ call[t].pc = "set_probe"
    /\ LET idx == wrap_index(call[t].idx)
           probed_key == array[key_addr(idx)]
       IN call' = [call EXCEPT ![t] =
                      IF probed_key # call[t].key
                      THEN IF probed_key # 0
                           THEN [@ EXCEPT !.idx = wrapping_inc(idx)]
                           ELSE [@ EXCEPT !.idx = idx, !.pc = "set_cxchg"]
                      ELSE [@ EXCEPT !.idx = idx, !.pc = "set_xchg"]]
    /\ UNCHANGED <<capacity, array, size, history>>
    /\ UNCHANGED <<paramVars, counterVars>>

(* atomic_cxchg(dst, old, src): the cell afterwards *)
atomic_cxchg(cell, old, src) == IF cell = old THEN src ELSE cell

(* set(), lines 81-89: claim the empty slot *)
set_cxchg(t) ==
    /\ call[t].pc = "set_cxchg"
    /\ LET addr == key_addr(call[t].idx)
           previous_key == array[addr]
       IN /\ array' = [array EXCEPT ![addr] =
                          atomic_cxchg(@, 0, call[t].key)]
          /\ call' = [call EXCEPT ![t] =
                         IF previous_key # 0 /\ previous_key # call[t].key
                         THEN [@ EXCEPT !.idx = wrapping_inc(@),
                                        !.pc = "set_probe"]
                         ELSE [@ EXCEPT !.pc = "set_fetch_add"]]
    /\ UNCHANGED <<capacity, size, history>>
    /\ UNCHANGED <<paramVars, counterVars>>

(* set(), line 92: self.size.fetch_add(1) *)
set_fetch_add(t) ==
    /\ call[t].pc = "set_fetch_add"
    /\ size' = fetch_add_one(size)
    /\ call' = [call EXCEPT ![t].pc = "set_store"]
    /\ UNCHANGED <<capacity, array, history>>
    /\ UNCHANGED <<paramVars, counterVars>>

(* set(), lines 95-96: store the value, return None *)
set_store(t) ==
    /\ call[t].pc = "set_store"
    /\ array' = [array EXCEPT ![value_addr(call[t].idx)] = call[t].value]
    /\ Record(t, "set", call[t].key, call[t].value, None)
    /\ Return(t)
    /\ UNCHANGED <<capacity, size>>
    /\ UNCHANGED <<paramVars, counterVars>>

(* atomic_xchg(dst, src): the value returned *)
atomic_xchg_new(cell, src) == src

atomic_xchg(cell, src) == cell

(* set(), lines 100-101: swap the value in, return the old one *)
set_xchg(t) ==
    /\ call[t].pc = "set_xchg"
    /\ LET addr == value_addr(call[t].idx)
       IN /\ array' = [array EXCEPT ![addr] = call[t].value]
          /\ Record(t, "set", call[t].key, call[t].value,
                    Some(atomic_xchg(array[addr], call[t].value)))
    /\ Return(t)
    /\ UNCHANGED <<capacity, size>>
    /\ UNCHANGED <<paramVars, counterVars>>

(* get(), lines 106-108 *)
get_enter(t, key, cap) ==
    /\ capacity > 0
    /\ call[t].pc = "idle"
    /\ Len(history[t]) < cap
    /\ call' = [call EXCEPT ![t] =
                   IF key > 0
                   THEN [pc |-> "get_probe", key |-> key, value |-> 0,
                         idx |-> hash_of_key[key]]
                   ELSE [NoCall EXCEPT !.pc = "panicked"]]
    /\ UNCHANGED <<capacity, array, size, history>>
    /\ UNCHANGED <<paramVars, counterVars>>

(* get(), lines 112-129: wrap the index and load the key of the slot *)
get_probe(t) ==
    /\ call[t].pc = "get_probe"
    /\ LET idx == wrap_index(call[t].idx)
           probed_key == array[key_addr(idx)]
       IN IF probed_key = call[t].key
          THEN /\ call' = [call EXCEPT ![t].idx = idx, ![t].pc = "get_value"]
               /\ UNCHANGED history
          ELSE IF probed_key = 0
          THEN /\ Record(t, "get", call[t].key, 0, None)
               /\ Return(t)
          ELSE /\ call' = [call EXCEPT ![t].idx = wrapping_inc(idx)]
               /\ UNCHANGED history
    /\ UNCHANGED <<capacity, array, size>>
    /\ UNCHANGED <<paramVars, counterVars>>

(* get(), lines 122-123: load the value *)
get_value(t) ==
    /\ call[t].pc = "get_value"
    /\ Record(t, "get", call[t].key, 0, Some(array[value_addr(call[t].idx)]))
    /\ Return(t)
    /\ UNCHANGED <<capacity, array, size>>
    /\ UNCHANGED <<paramVars, counterVars>>

(* get(key) run to its end with no other call in progress; <<0, 0>> when   *)
(* the loop has looked at every slot without returning                     *)

RECURSIVE get_loop(_, _, _)
get_loop(key, idx, fuel) ==
    LET at == wrap_index(idx)
        probed_key == array[key_addr(at)]
    IN IF fuel = 0 THEN <<0, 0>>
       ELSE IF probed_key = key THEN Some(array[value_addr(at)])
       ELSE IF probed_key = 0 THEN None
       ELSE get_loop(key, wrapping_inc(at), fuel - 1)

IntegerHashTable_get(key) ==
    get_loop(key, hash_of_key[key], capacity)

(* one thread uses the table *)
NextTable ==
    \/ \E key \in 0..MaxKey : \E value \in 0..MaxValue :
          set_enter(1, key, value, MaxTableCalls)
    \/ set_probe(1)
    \/ set_cxchg(1)
    \/ set_fetch_add(1)
    \/ set_store(1)
    \/ set_xchg(1)
    \/ \E key \in 0..MaxKey : get_enter(1, key, MaxTableCalls)
    \/ get_probe(1)
    \/ get_value(1)

SpecTable == InitTable /\ [][NextTable]_vars

(* the threads share the table *)
NextShared ==
    \E t \in Threads :
        \/ \E key \in 0..MaxSharedKey : \E value \in 0..MaxSharedValue :
              set_enter(t, key, value, MaxSharedCalls)
        \/ set_probe(t)
        \/ set_cxchg(t)
        \/ set_fetch_add(t)
        \/ set_store(t)
        \/ set_xchg(t)
        \/ \E key \in 0..MaxSharedKey : get_enter(t, key, MaxSharedCalls)
        \/ get_probe(t)
        \/ get_value(t)

SpecShared == InitShared /\ [][NextShared]_vars

(* ------------------------------- C34 ----------------------------------- *)
(* the keys of the completed set() calls of a history *)
KeysSet(h) == {h[i].key : i \in {j \in 1..Len(h) : h[j].op = "set"}}

(* the reference map before call i of a history: the value of the latest   *)
(* earlier set() of the same key                                           *)
Expected(h, i, key) ==
    LET earlier == {j \in 1..(i - 1) : h[j].op = "set" /\ h[j].key = key}
        latest == CHOOSE j \in earlier : \A e \in earlier : e <= j
    IN IF earlier = {} THEN None ELSE Some(h[latest].value)

(* C34: an IntegerHashTable used by one thread with fewer distinct keys    *)
(* than its capacity behaves like a reference map: set(k, v) returns None  *)
(* when k was absent and Some(previous value) when it was present, get(k)  *)
(* returns the most recently set value (None if never set), and size() is  *)
(* the number of distinct keys set.                                        *)
C34_ReferenceMap ==
    LET h == history[1]
    IN (capacity > 0 /\ Cardinality(KeysSet(h)) < capacity) =>
           /\ \A i \in 1..Len(h) : h[i].ret = Expected(h, i, h[i].key)
           /\ call[1].pc = "idle" =>
                 /\ size = Cardinality(KeysSet(h))
                 /\ \A key \in 1..MaxKey :
                       IntegerHashTable_get(key) = Expected(h, Len(h) + 1, key)

C34_Witness ==
    /\ capacity = 4
    /\ call[1].pc = "idle"
    /\ history[1] = <<[op |-> "set", key |-> 3, value |-> 1, ret |-> None],
                      [op |-> "set", key |-> 4, value |-> 2, ret |-> None],
                      [op |-> "get", key |-> 4, value |-> 0, ret |-> Some(2)]>>
    /\ array[key_addr(u32(1))] = 3
    /\ array[key_addr(u32(2))] = 4
    /\ size = 2

(* ------------------------------- C35 ----------------------------------- *)
(* every call on the table has returned (or died in an assertion) *)
Completed == \A t \in Threads : call[t].pc \in {"idle", "panicked"}

AllKeysSet == UNION {KeysSet(history[t]) : t \in Threads}

(* the values the completed set(key, .) calls wrote *)
Written(key) ==
    UNION {{history[t][i].value :
               i \in {j \in 1..Len(history[t]) :
                         history[t][j].op = "set" /\ history[t][j].key = key}} :
           t \in Threads}

(* the slots whose key cell holds key *)
SlotsOf(key) == {i \in 0..(capacity - 1) : array[key_addr(u32(i))] = key}

(* C35: for any interleaving of concurrent set() calls, once all calls     *)
(* have completed, get(k) returns for every key k that was set a value     *)
(* some set(k, .) call wrote (the value its thread wrote when only that    *)
(* thread set k), each key occupies exactly one slot, and size() equals    *)
(* the number of distinct keys set.                                        *)
C35_AfterConcurrentSets ==
    (capacity > 0 /\ Completed) =>
        /\ \A key \in AllKeysSet :
              /\ IntegerHashTable_get(key) \in {Some(v) : v \in Written(key)}
              /\ \A t \in Threads :
                    (\A u \in Threads :
                        key \in KeysSet(history[u]) <=> u = t) =>
                        IntegerHashTable_get(key) =
                            Expected(history[t], Len(history[t]) + 1, key)
              /\ Cardinality(SlotsOf(key)) = 1
        /\ size = Cardinality(AllKeysSet)

====
